---- MODULE Spec2Model ----
(***************************************************************************)
(* Model of asyncgit/src/sync/config.rs: the generic config reader          *)
(* (get_config_string, get_config_string_repo) and the two typed resolvers  *)
(* (untracked_files_config_repo, push_default_strategy_config_repo) over a  *)
(* repository configuration store that changes externally between calls.    *)
(***************************************************************************)
EXTENDS Naturals, Sequences, FiniteSets

VARIABLES
    store,      \* configuration store: key -> entry (what git2 would find)
    cfgErr,     \* outcome of repo.config(): "none" or the name of its error
    last,       \* the most recent call: operation, arguments, reader result, result
    dirty       \* TRUE iff the store/environment changed since the most recent call

vars == <<store, cfgErr, last, dirty>>

----------------------------------------------------------------------------
(* Values: Result and Option *)

Ok(v) == [ok |-> TRUE, val |-> v]
Err(e) == [ok |-> FALSE, err |-> e]
Some(s) == <<s>>
None == <<>>

\* crate::Error values: a kind and the pieces of its message
GitError(name) == [kind |-> "Git", msg |-> <<name>>]
GitConfigError(pieces) == [kind |-> "GitConfig", msg |-> pieces]

----------------------------------------------------------------------------
(* The external store *)

KeyUntracked == "status.showUntrackedFiles"
KeyPush == "push.default"
KeyUser == "user.name"

StoreKeys == {KeyUntracked, KeyPush, KeyUser}
\* keys a caller may ask for: the stored ones, one never set, one syntactically invalid
Keys == StoreKeys \cup {"this.doesnt.exist", "not a key"}

GoodPath == "repo"
BadPath == "oodly_noodly"
Paths == {GoodPath, BadPath}

ConfigErrors == {"ConfigErrA", "ConfigErrB"}

Missing == [kind |-> "missing", utf8 |-> TRUE, text |-> ""]
NoValue == [kind |-> "novalue", utf8 |-> TRUE, text |-> ""]
Text(s) == [kind |-> "bytes", utf8 |-> TRUE, text |-> s]
\* a value whose bytes are not valid UTF-8
NonUtf8 == [kind |-> "bytes", utf8 |-> FALSE, text |-> "\\xff"]

ValidPushTokens == {"nothing", "current", "upstream", "tracking", "simple", "matching"}
UntrackedStrings == {"no", "normal", "all", "", "bogus", "No", "NORMAL"}
PushStrings == ValidPushTokens \cup {"", "bogus", "Simple"}

EntriesFor(k) ==
    IF k = KeyUntracked THEN {Missing, NoValue, NonUtf8} \cup {Text(s) : s \in UntrackedStrings}
    ELSE IF k = KeyPush THEN {Missing, NoValue, NonUtf8} \cup {Text(s) : s \in PushStrings}
    ELSE {Text("gitui")}   \* repo init sets user.name

----------------------------------------------------------------------------
(* git2 calls made by the reader *)

\* the repository handle as the calls see it now
Repository == [cfgErr |-> cfgErr, store |-> store]

\* repo.config(): the accessor, or a git2 error
repo_config(r) ==
    IF r.cfgErr = "none" THEN Ok(r.store) ELSE Err(r.cfgErr)

\* cfg.get_entry(key): errors for a key that is invalid or not set
get_entry(cfg, key) ==
    IF key \in DOMAIN cfg /\ cfg[key].kind # "missing"
    THEN Ok(cfg[key])
    ELSE Err("NotFound")

\* entry.has_value()
has_value(entry) == entry.kind = "bytes"

\* entry.value(): Option<&str>, None when the bytes are not valid UTF-8
value(entry) == IF entry.utf8 THEN Some(entry.text) ELSE None

\* repo(repo_path): only the good path holds a repository
repo(repo_path) ==
    IF repo_path = GoodPath
    THEN Ok(Repository)
    ELSE Err(GitError("RepoOpenErr"))

----------------------------------------------------------------------------
(* config.rs *)

ShowUntrackedFilesConfig == {"No", "Normal", "All"}

\* impl Default for ShowUntrackedFilesConfig
ShowUntrackedFilesConfig_default == "No"

include_none(self) == self \in {"No"}

\* mutant: `All` dropped from the pattern
include_untracked_only_normal(self) == self \in {"Normal"}

include_untracked(self) == self \in {"Normal", "All"}

recurse_untracked_dirs(self) == self \in {"All"}

\* the `?` of line 138: git2::Error into crate::Error::Git
from_git2(e) == GitError(e)

\* mutant: the lookup error is propagated with `?` instead of being folded into absence
get_config_string_repo_propagates(r, key) ==
    LET cfg == repo_config(r) IN
    IF ~cfg.ok THEN Err(from_git2(cfg.err))
    ELSE LET entry_res == get_entry(cfg.val, key) IN
         IF ~entry_res.ok THEN Err(from_git2(entry_res.err))
         ELSE IF has_value(entry_res.val)
              THEN Ok(value(entry_res.val))
              ELSE Ok(None)

\* mutant: the has_value test is inverted
get_config_string_repo_inverted(r, key) ==
    LET cfg == repo_config(r) IN
    IF ~cfg.ok THEN Err(from_git2(cfg.err))
    ELSE LET entry_res == get_entry(cfg.val, key) IN
         IF ~entry_res.ok THEN Ok(None)
         ELSE IF ~has_value(entry_res.val)
              THEN Ok(value(entry_res.val))
              ELSE Ok(None)

\* mutant: the answer of the previous lookup of the same key is kept and reused
get_config_string_repo_cached(r, key) ==
    IF last.op = "get_config_string_repo" /\ last.arg = <<key>>
    THEN last.res
    ELSE LET cfg == repo_config(r) IN
         IF ~cfg.ok THEN Err(from_git2(cfg.err))
         ELSE LET entry_res == get_entry(cfg.val, key) IN
              IF ~entry_res.ok THEN Ok(None)
              ELSE IF has_value(entry_res.val)
                   THEN Ok(value(entry_res.val))
                   ELSE Ok(None)

get_config_string_repo(r, key) ==
    LET cfg == repo_config(r) IN
    IF ~cfg.ok THEN Err(from_git2(cfg.err))
    ELSE LET entry_res == get_entry(cfg.val, key) IN
         IF ~entry_res.ok THEN Ok(None)
         ELSE IF has_value(entry_res.val)
              THEN Ok(value(entry_res.val))
              ELSE Ok(None)

get_config_string(repo_path, key) ==
    LET rp == repo(repo_path) IN
    IF ~rp.ok THEN Err(rp.err)
    ELSE get_config_string_repo(rp.val, key)

\* ASCII lower-casing of the strings of the model
Lower(s) ==
    IF s = "No" THEN "no"
    ELSE IF s = "NORMAL" THEN "normal"
    ELSE IF s = "Simple" THEN "simple"
    ELSE s

\* mutant: the comparison ignores case
untracked_files_config_repo_ignore_case(r) ==
    LET show_untracked_files == get_config_string_repo(r, KeyUntracked) IN
    IF ~show_untracked_files.ok THEN Err(show_untracked_files.err)
    ELSE IF show_untracked_files.val # None /\ Lower(show_untracked_files.val[1]) = "no"
         THEN Ok("No")
    ELSE IF show_untracked_files.val # None /\ Lower(show_untracked_files.val[1]) = "normal"
         THEN Ok("Normal")
    ELSE Ok("All")

\* mutant: a failed read is swallowed and the fallback returned
untracked_files_config_repo_swallows(r) ==
    LET show_untracked_files == get_config_string_repo(r, KeyUntracked) IN
    IF ~show_untracked_files.ok THEN Ok("All")
    ELSE IF show_untracked_files.val # None /\ show_untracked_files.val[1] = "no"
         THEN Ok("No")
    ELSE IF show_untracked_files.val # None /\ show_untracked_files.val[1] = "normal"
         THEN Ok("Normal")
    ELSE Ok("All")

untracked_files_config_repo(r) ==
    LET show_untracked_files == get_config_string_repo(r, KeyUntracked) IN
    IF ~show_untracked_files.ok THEN Err(show_untracked_files.err)
    ELSE IF show_untracked_files.val # None /\ show_untracked_files.val[1] = "no"
         THEN Ok("No")
    ELSE IF show_untracked_files.val # None /\ show_untracked_files.val[1] = "normal"
         THEN Ok("Normal")
    ELSE Ok("All")

untracked_files_config(repo_path) ==
    LET rp == repo(repo_path) IN
    IF ~rp.ok THEN Err(rp.err)
    ELSE untracked_files_config_repo(rp.val)

PushDefaultStrategyConfig == {"Nothing", "Current", "Upstream", "Simple", "Matching"}

\* impl Default for PushDefaultStrategyConfig
PushDefaultStrategyConfig_default == "Simple"

\* the format! of lines 97-99, piece by piece
malformed_message(v) ==
    <<"malformed value for push.default: ", v, ", must be one of ",
      "nothing", ", ", "matching", ", ", "simple", ", ", "upstream", " or ", "current">>

\* mutant: the `tracking` alias is missing from the match
try_from_no_alias(v) ==
    IF v = "nothing" THEN Ok("Nothing")
    ELSE IF v = "current" THEN Ok("Current")
    ELSE IF v = "upstream" THEN Ok("Upstream")
    ELSE IF v = "simple" THEN Ok("Simple")
    ELSE IF v = "matching" THEN Ok("Matching")
    ELSE Err(GitConfigError(malformed_message(v)))

try_from(v) ==
    IF v = "nothing" THEN Ok("Nothing")
    ELSE IF v = "current" THEN Ok("Current")
    ELSE IF v = "upstream" \/ v = "tracking" THEN Ok("Upstream")
    ELSE IF v = "simple" THEN Ok("Simple")
    ELSE IF v = "matching" THEN Ok("Matching")
    ELSE Err(GitConfigError(malformed_message(v)))

\* mutant: an unparsable value falls back to the default (unwrap_or_default)
push_default_strategy_config_repo_defaults(r) ==
    LET entry == get_config_string_repo(r, KeyPush) IN
    IF ~entry.ok THEN Err(entry.err)
    ELSE IF entry.val = None THEN Ok(PushDefaultStrategyConfig_default)
    ELSE IF try_from(entry.val[1]).ok THEN try_from(entry.val[1])
    ELSE Ok(PushDefaultStrategyConfig_default)

push_default_strategy_config_repo(r) ==
    LET entry == get_config_string_repo(r, KeyPush) IN
    IF ~entry.ok THEN Err(entry.err)
    ELSE IF entry.val = None THEN Ok(PushDefaultStrategyConfig_default)
    ELSE try_from(entry.val[1])

----------------------------------------------------------------------------
(* The state machine *)

NoRead == Ok(None)

\* whether this call repeats the previous one on an unchanged store, and agrees with it
Stability(op, arg, res) ==
    IF ~dirty /\ last.op = op /\ last.arg = arg
    THEN (IF last.res = res THEN "same" ELSE "differ")
    ELSE "first"

\* what a call leaves behind: its arguments, the reader's answer it saw, its result
Record(op, arg, read, res) ==
    [op |-> op, arg |-> arg, read |-> read, res |-> res,
     stable |-> Stability(op, arg, res)]

Init ==
    /\ store = [k \in StoreKeys |-> IF k = KeyUser THEN Text("gitui") ELSE Missing]
    /\ cfgErr = "none"
    /\ last = [op |-> "none", arg |-> <<>>, read |-> NoRead, res |-> NoRead,
               stable |-> "first"]
    /\ dirty = TRUE

\* the user or another program edits the configuration
SetEntry ==
    \E k \in StoreKeys : \E e \in EntriesFor(k) :
        /\ e # store[k]
        /\ store' = [store EXCEPT ![k] = e]
        /\ dirty' = TRUE
        /\ UNCHANGED <<cfgErr, last>>

\* the configuration becomes unreadable, or readable again
SetConfigError ==
    \E c \in ConfigErrors \cup {"none"} :
        /\ c # cfgErr
        /\ cfgErr' = c
        /\ dirty' = TRUE
        /\ UNCHANGED <<store, last>>

Call_get_config_string ==
    \E p \in Paths : \E k \in Keys :
        /\ last' = Record("get_config_string", <<p, k>>, NoRead, get_config_string(p, k))
        /\ dirty' = FALSE
        /\ UNCHANGED <<store, cfgErr>>

Call_get_config_string_repo ==
    \E k \in Keys :
        /\ last' = Record("get_config_string_repo", <<k>>, NoRead,
                          get_config_string_repo(Repository, k))
        /\ dirty' = FALSE
        /\ UNCHANGED <<store, cfgErr>>

Call_untracked_files_config_repo ==
    /\ last' = Record("untracked_files_config_repo", <<>>,
                      get_config_string_repo(Repository, KeyUntracked),
                      untracked_files_config_repo(Repository))
    /\ dirty' = FALSE
    /\ UNCHANGED <<store, cfgErr>>

Call_untracked_files_config ==
    \E p \in Paths :
        /\ last' = Record("untracked_files_config", <<p>>, NoRead,
                          untracked_files_config(p))
        /\ dirty' = FALSE
        /\ UNCHANGED <<store, cfgErr>>

Call_push_default_strategy_config_repo ==
    /\ last' = Record("push_default_strategy_config_repo", <<>>,
                      get_config_string_repo(Repository, KeyPush),
                      push_default_strategy_config_repo(Repository))
    /\ dirty' = FALSE
    /\ UNCHANGED <<store, cfgErr>>

Call_default_untracked ==
    /\ last' = Record("ShowUntrackedFilesConfig::default", <<>>, NoRead,
                      Ok(ShowUntrackedFilesConfig_default))
    /\ dirty' = FALSE
    /\ UNCHANGED <<store, cfgErr>>

Call_default_push ==
    /\ last' = Record("PushDefaultStrategyConfig::default", <<>>, NoRead,
                      Ok(PushDefaultStrategyConfig_default))
    /\ dirty' = FALSE
    /\ UNCHANGED <<store, cfgErr>>

\* a caller asks the three predicates of a mode
Call_flags ==
    \E v \in ShowUntrackedFilesConfig :
        /\ last' = Record("flags", <<v>>, NoRead,
                          Ok(<<include_none(v), include_untracked(v),
                               recurse_untracked_dirs(v)>>))
        /\ dirty' = FALSE
        /\ UNCHANGED <<store, cfgErr>>

Next ==
    \/ SetEntry
    \/ SetConfigError
    \/ Call_get_config_string
    \/ Call_get_config_string_repo
    \/ Call_untracked_files_config_repo
    \/ Call_untracked_files_config
    \/ Call_push_default_strategy_config_repo
    \/ Call_default_untracked
    \/ Call_default_push
    \/ Call_flags

Spec == Init /\ [][Next]_vars

----------------------------------------------------------------------------
(* Properties *)

IsCall(op) == last.op = op

\* the store still is what the most recent call saw
Unchanged == ~dirty

LookupFails(k) == k \notin StoreKeys \/ store[k].kind = "missing"

\* C1: get_config_string fails exactly when the repository cannot be opened or
\* its configuration cannot be acquired; with both opened every key gives Ok,
\* and a key whose lookup errors (never set, or invalid) gives Ok(None).
C1_ErrorOnlyOnStoreAccess ==
    (Unchanged /\ IsCall("get_config_string")) =>
        LET p == last.arg[1]
            k == last.arg[2]
        IN /\ (~last.res.ok) <=> (p # GoodPath \/ cfgErr # "none")
           /\ (p = GoodPath /\ cfgErr = "none" /\ LookupFails(k)) => last.res = Ok(None)

C1_Witness ==
    /\ Unchanged
    /\ IsCall("get_config_string")
    /\ last.arg = <<GoodPath, "this.doesnt.exist">>
    /\ cfgErr = "none"
    /\ last.res = Ok(None)

\* C2 as stated: whenever the lookup succeeds and the entry carries a value the
\* result is Ok(Some(value)) holding the entry's string, and whenever the
\* lookup succeeds and the entry carries no value the result is Ok(None).
C2_AsStated ==
    (Unchanged /\ IsCall("get_config_string_repo") /\ cfgErr = "none"
        /\ ~LookupFails(last.arg[1])) =>
        LET e == store[last.arg[1]] IN
        IF e.kind = "bytes"
        THEN /\ last.res.ok
             /\ last.res.val # None
             /\ e.utf8 => last.res.val = Some(e.text)
        ELSE last.res = Ok(None)

\* C2 amended: whenever the lookup succeeds and the entry carries a value, the
\* result is Ok(Some(value)) if the value is valid UTF-8 and Ok(None) if it is
\* not; whenever the lookup succeeds and the entry carries no value the result
\* is Ok(None).
C2_ValueWhenUtf8 ==
    (Unchanged /\ IsCall("get_config_string_repo") /\ cfgErr = "none"
        /\ ~LookupFails(last.arg[1])) =>
        LET e == store[last.arg[1]] IN
        IF e.kind = "bytes" /\ e.utf8 THEN last.res = Ok(Some(e.text))
        ELSE last.res = Ok(None)

C2_Witness ==
    /\ Unchanged
    /\ IsCall("get_config_string_repo")
    /\ cfgErr = "none"
    /\ last.arg = <<KeyPush>>
    /\ store[KeyPush] = NonUtf8
    /\ last.res = Ok(None)

\* C3: untracked_files_config_repo is total over the reader's successful
\* results: Some("no") gives No, Some("normal") gives Normal, None and every
\* other string (case variants included) give All.
C3_UntrackedTable ==
    (IsCall("untracked_files_config_repo") /\ last.read.ok) =>
        last.res = Ok(IF last.read.val = Some("no") THEN "No"
                      ELSE IF last.read.val = Some("normal") THEN "Normal"
                      ELSE "All")

C3_Witness ==
    /\ IsCall("untracked_files_config_repo")
    /\ last.read = Ok(Some("NORMAL"))
    /\ last.res = Ok("All")

PushTable ==
    [nothing |-> "Nothing", current |-> "Current", upstream |-> "Upstream",
     tracking |-> "Upstream", simple |-> "Simple", matching |-> "Matching"]

\* C4: push_default_strategy_config_repo gives Simple when the reader returns
\* None, and for a present valid token the variant of the exact-match table.
C4_PushTable ==
    (IsCall("push_default_strategy_config_repo") /\ last.read.ok) =>
        /\ last.read.val = None => last.res = Ok("Simple")
        /\ \A tok \in DOMAIN PushTable :
               last.read.val = Some(tok) => last.res = Ok(PushTable[tok])

C4_Witness ==
    /\ IsCall("push_default_strategy_config_repo")
    /\ last.read = Ok(Some("tracking"))
    /\ last.res = Ok("Upstream")

Unrecognized(opt, known) == opt # None /\ opt[1] \notin known

\* C5: a present push.default value outside the six tokens makes
\* push_default_strategy_config_repo fail with a GitConfig error naming the
\* value, never a default; untracked_files_config_repo succeeds with All on a
\* present value it does not recognize.
C5_MalformedIsError ==
    /\ (IsCall("push_default_strategy_config_repo") /\ last.read.ok
            /\ Unrecognized(last.read.val, DOMAIN PushTable)) =>
           /\ ~last.res.ok
           /\ last.res.err.kind = "GitConfig"
           /\ \E i \in DOMAIN last.res.err.msg : last.res.err.msg[i] = last.read.val[1]
    /\ (IsCall("untracked_files_config_repo") /\ last.read.ok
            /\ Unrecognized(last.read.val, {"no", "normal"})) =>
           last.res = Ok("All")

C5_Witness ==
    /\ IsCall("push_default_strategy_config_repo")
    /\ last.read = Ok(Some("Simple"))
    /\ ~last.res.ok
    /\ last.res.err.kind = "GitConfig"

\* the tokens the message enumerates after "must be one of"
ListedTokens(msg) == {msg[i] : i \in {j \in DOMAIN msg : j > 3 /\ j % 2 = 0}}

AcceptedTokens == {s \in PushStrings : try_from(s).ok}

\* C6: the message for an unrecognized push.default value names the value and
\* lists exactly the tokens try_from accepts.
C6_MessageListsAccepted ==
    (IsCall("push_default_strategy_config_repo") /\ ~last.res.ok
        /\ last.res.err.kind = "GitConfig") =>
        /\ last.res.err.msg[2] = last.read.val[1]
        /\ ListedTokens(last.res.err.msg) = AcceptedTokens

\* C7: when the reader fails, both resolvers fail with the reader's error
\* itself, and untracked_files_config_repo fails in no other case.
C7_ErrorPropagatedUnchanged ==
    /\ ((IsCall("untracked_files_config_repo")
            \/ IsCall("push_default_strategy_config_repo")) /\ ~last.read.ok) =>
           (~last.res.ok /\ last.res.err = last.read.err)
    /\ (IsCall("untracked_files_config_repo") /\ ~last.res.ok) => ~last.read.ok

C7_Witness ==
    /\ IsCall("untracked_files_config_repo")
    /\ last.read = Err(GitError("ConfigErrB"))
    /\ last.res = Err(GitError("ConfigErrB"))

\* C8: ShowUntrackedFilesConfig::default() is All, the value the resolver
\* gives for an absent setting, and PushDefaultStrategyConfig::default() is
\* Simple, the value its resolver gives for an absent setting.
C8_DefaultsAreAbsentValues ==
    /\ IsCall("ShowUntrackedFilesConfig::default") => last.res = Ok("All")
    /\ IsCall("PushDefaultStrategyConfig::default") => last.res = Ok("Simple")
    /\ (IsCall("untracked_files_config_repo") /\ last.read = Ok(None)) =>
           last.res = Ok("All")
    /\ (IsCall("push_default_strategy_config_repo") /\ last.read = Ok(None)) =>
           last.res = Ok("Simple")

\* what a reading of the store as it is now gives for a key
FreshRead(k) ==
    IF cfgErr # "none" THEN Err(GitError(cfgErr))
    ELSE IF ~LookupFails(k) /\ store[k].kind = "bytes" /\ store[k].utf8
         THEN Ok(Some(store[k].text))
         ELSE Ok(None)

FreshUntracked ==
    LET r == FreshRead(KeyUntracked) IN
    IF ~r.ok THEN r
    ELSE IF r.val = Some("no") THEN Ok("No")
    ELSE IF r.val = Some("normal") THEN Ok("Normal")
    ELSE Ok("All")

FreshPush ==
    LET r == FreshRead(KeyPush) IN
    IF ~r.ok THEN r
    ELSE IF r.val = None THEN Ok("Simple")
    ELSE IF r.val[1] \in DOMAIN PushTable THEN Ok(PushTable[r.val[1]])
    ELSE Err(GitConfigError(malformed_message(r.val[1])))

ResultIsFresh ==
    /\ IsCall("get_config_string_repo") => last.res = FreshRead(last.arg[1])
    /\ IsCall("untracked_files_config_repo") => last.res = FreshUntracked
    /\ IsCall("push_default_strategy_config_repo") => last.res = FreshPush

\* C9: a call's result is a function of the key and the store at the moment
\* of the call: a call repeated on an unchanged store returns what the one
\* before returned, a call after a change reflects the new contents, and no
\* call changes the store.
C9_NoCachingNoWrites ==
    /\ [](last.stable # "differ" /\ (Unchanged => ResultIsFresh))
    /\ [][(store' # store \/ cfgErr' # cfgErr) => (dirty' /\ last' = last)]_vars

C9_Witness ==
    /\ Unchanged
    /\ IsCall("get_config_string_repo")
    /\ last.arg = <<KeyUntracked>>
    /\ last.stable = "same"
    /\ last.res = Ok(Some("normal"))

\* C10: include_none holds exactly for No, include_untracked exactly for
\* Normal and All, recurse_untracked_dirs exactly for All; so for a value the
\* resolver returns exactly one of include_none and include_untracked holds
\* and recurse_untracked_dirs implies include_untracked.
C10_Predicates ==
    /\ IsCall("flags") =>
           LET v == last.arg[1] IN
           last.res = Ok(<<v = "No", v = "Normal" \/ v = "All", v = "All">>)
    /\ ((IsCall("untracked_files_config_repo") \/ IsCall("untracked_files_config"))
            /\ last.res.ok) =>
           /\ include_none(last.res.val) # include_untracked(last.res.val)
           /\ recurse_untracked_dirs(last.res.val) => include_untracked(last.res.val)

C10_Witness ==
    /\ IsCall("flags")
    /\ last.arg = <<"All">>
    /\ last.res = Ok(<<FALSE, TRUE, TRUE>>)

====
